---- MODULE Spec2Model ----
(***************************************************************************)
(* Model of scripts/configure.py: the command-line entry point (clean,     *)
(* cleansrc, default split-then-emit) and build_stuff, which translates    *)
(* the splitter's list of linker entries into the statements of            *)
(* build.ninja.                                                            *)
(*                                                                         *)
(* Text (str) is a sequence of one-character strings, so that type[0],     *)
(* Path.suffix, str(Path) and string concatenation are computed.  A Path   *)
(* is the sequence of its parts.  Optional[Path] is a sequence of length   *)
(* at most one (None is the empty sequence).  Rule names, variable keys    *)
(* and class names are identifiers and stay TLA+ strings.                  *)
(***************************************************************************)
EXTENDS Integers, Sequences, FiniteSets, TLC

VARIABLES
    args,            \* argparse result: [clean, cleansrc]
    fs,              \* names that exist in the working directory
    build_ninja,     \* content of build.ninja: the statements written to it
    linker_entries,  \* split.linker_writer.entries / build_stuff's argument
    idx,             \* position of the for loop of build_stuff (1-based)
    built_objects,   \* build_stuff's set of tracked object paths
    stdout,          \* lines printed
    pc,              \* position of the script
    exit_code        \* process exit status, NoExit while running

vars == <<args, fs, build_ninja, linker_entries, idx, built_objects, stdout, pc, exit_code>>

\* ------------------------------------------------------------------ bounds

MaxEntries == 2

MainMaxEntries == 2

\* ------------------------------------------------------------------- text

None == <<>>

Some(p) == <<p>>

NoExit == 0 - 1

RECURSIVE Join(_)
\* str(Path): the parts joined by "/"
Join(parts) ==
    IF parts = <<>> THEN <<>>
    ELSE IF Len(parts) = 1 THEN parts[1]
    ELSE parts[1] \o <<"/">> \o Join(Tail(parts))

PathStr(p) == Join(p)

\* str.rfind(ch), 1-based; 0 when ch does not occur
RFind(name, ch) ==
    LET hits == {k \in 1..Len(name) : name[k] = ch}
    IN  IF hits = {} THEN 0 ELSE CHOOSE k \in hits : \A m \in hits : m <= k

\* Path.suffix: the last part from its last dot on, unless that dot is the
\* first or the last character of the part
Suffix(p) ==
    IF p = <<>> THEN <<>>
    ELSE LET name == p[Len(p)]
             k == RFind(name, ".")
         IN  IF 1 < k /\ k < Len(name) THEN SubSeq(name, k, Len(name)) ELSE <<>>

DotO == <<".", "o">>

\* ------------------------------------------------------------ module constants

BASENAME == <<"S", "C", "E", "S", "_", "5", "0", "7", ".", "6", "0">>

BuildDir == <<"b", "u", "i", "l", "d">>

LD_PATH == BASENAME \o <<".", "l", "d">>

ELF_PATH == BuildDir \o <<"/">> \o BASENAME

MAP_PATH == BuildDir \o <<"/">> \o BASENAME \o <<".", "m", "a", "p">>

PRE_ELF_PATH == BuildDir \o <<"/">> \o BASENAME \o <<".", "e", "l", "f">>

ChecksumPath ==
    <<"c", "h", "e", "c", "k", "s", "u", "m", "-">> \o BASENAME \o <<".", "s", "h", "a", "1">>

OkPath == ELF_PATH \o <<".", "o", "k">>

Splache == <<".", "s", "p", "l", "a", "c", "h", "e">>

AsmDir == <<"a", "s", "m">>

AssetsDir == <<"a", "s", "s", "e", "t", "s">>

SrcDir == <<"s", "r", "c">>

BuildNinja == <<"b", "u", "i", "l", "d", ".", "n", "i", "n", "j", "a">>

\* what clean() removes
CleanTargets == {Splache, LD_PATH, AsmDir, AssetsDir, BuildDir}

\* what the splitter may generate
SplitterOutputs == {Splache, LD_PATH, AsmDir, AssetsDir, SrcDir}

AllNames == CleanTargets \cup {SrcDir, BuildNinja}

\* content of a build.ninja left by an earlier run
Stale == <<[kind |-> "stale"]>>

\* ------------------------------------------------------------------ inputs

CommonSegAsm == "CommonSegAsm"

CommonSegData == "CommonSegData"

CommonSegDatabin == "CommonSegDatabin"

CommonSegRodatabin == "CommonSegRodatabin"

CommonSegC == "CommonSegC"

\* Segments the splitter can hand over: the type tag and the class that the
\* splitter instantiates for it.  "bin" and "lib" stand for the segment types
\* build_stuff has no branch for; ".data" is a tag that starts with a dot.
SegKinds ==
    { [type |-> <<"a", "s", "m">>, cls |-> CommonSegAsm],
      [type |-> <<"d", "a", "t", "a">>, cls |-> CommonSegData],
      [type |-> <<"d", "a", "t", "a", "b", "i", "n">>, cls |-> CommonSegDatabin],
      [type |-> <<"r", "o", "d", "a", "t", "a", "b", "i", "n">>, cls |-> CommonSegRodatabin],
      [type |-> <<"c">>, cls |-> CommonSegC],
      [type |-> <<".", "d", "a", "t", "a">>, cls |-> CommonSegData],
      [type |-> <<"b", "i", "n">>, cls |-> "CommonSegBin"],
      [type |-> <<"l", "i", "b">>, cls |-> "CommonSegLib"] }

\* Path("o/a.o"), Path("o/d.c.o"), Path("o/e.o.s")
ObjectPaths ==
    { <<<<"o">>, <<"a", ".", "o">>>>,
      <<<<"o">>, <<"d", ".", "c", ".", "o">>>>,
      <<<<"o">>, <<"e", ".", "o", ".", "s">>>> }

\* [Path("x.s")] and [Path("s/y.c"), Path("x.s")]
SrcPathLists ==
    { << <<<<"x", ".", "s">>>> >>,
      << <<<<"s">>, <<"y", ".", "c">>>>, <<<<"x", ".", "s">>>> >> }

\* the object path and the sources an entry can have: no object, o/a.o from
\* one source, o/d.c.o and o/e.o.s from two
EntryFiles ==
    {f \in [object_path : {None} \cup {Some(p) : p \in ObjectPaths},
            src_paths : SrcPathLists] :
        Len(f.src_paths) = 1 <=>
            f.object_path \in {None, Some(<<<<"o">>, <<"a", ".", "o">>>>)}}

LinkerEntries ==
    {[segment |-> k, object_path |-> f.object_path, src_paths |-> f.src_paths] :
        k \in SegKinds, f \in EntryFiles}

SeqsUpTo(S, n) == UNION {[1..k -> S] : k \in 0..n}

\* the splitter's results used for the whole-script specification
MainEntries ==
    {e \in LinkerEntries :
        /\ e.segment.type \in {<<"a", "s", "m">>, <<"d", "a", "t", "a", "b", "i", "n">>,
                               <<"c">>, <<".", "d", "a", "t", "a">>, <<"b", "i", "n">>}
        /\ e.object_path \in {None, Some(<<<<"o">>, <<"a", ".", "o">>>>)}
        /\ Len(e.src_paths) = 1}

\* --------------------------------------------------------------- build_stuff

isinstance(seg, cls) == seg.cls = cls

Rule(name) == [kind |-> "rule", name |-> name]

\* the five ninja.rule calls, in order
Rules == <<Rule("as"), Rule("cc"), Rule("ld"), Rule("sha1sum"), Rule("elf")>>

\* ninja.build(outputs, rule, inputs, implicit, variables, implicit_outputs)
NinjaBuild(outputs, rule, inputs, implicit, variables, implicit_outputs) ==
    [kind |-> "build", outputs |-> outputs, rule |-> rule, inputs |-> inputs,
     implicit |-> implicit, variables |-> variables,
     implicit_outputs |-> implicit_outputs]

StrList(paths) == [k \in 1..Len(paths) |-> PathStr(paths[k])]

\* every object path tracked, whatever its suffix
Tracked_Any(object_path) == TRUE

\* whether build() tracks the object path as a link input
Tracked(object_path) == Suffix(object_path) = DotO

RECURSIVE BuildEach(_, _, _, _, _, _)
\* the for loop of build(): acc is [objs, out]
BuildEach(todo, object_strs, src_paths, task, variables, acc) ==
    IF todo = <<>> THEN acc
    ELSE LET object_path == Head(todo)
             objs == IF Tracked(object_path)
                     THEN acc.objs \cup {object_path}
                     ELSE acc.objs
             edge == NinjaBuild(object_strs, task, StrList(src_paths), <<>>,
                                variables, <<>>)
         IN  BuildEach(Tail(todo), object_strs, src_paths, task, variables,
                       [objs |-> objs, out |-> Append(acc.out, edge)])

\* build(object_paths, src_paths, task, variables) called with one Path
build(object_path, src_paths, task, variables, objs, out) ==
    LET object_paths == <<object_path>>
        object_strs == StrList(object_paths)
    IN  BuildEach(object_paths, object_strs, src_paths, task, variables,
                  [objs |-> objs, out |-> out])

Override == <<[key |-> "override", value |-> <<>>]>>

NoVariables == <<>>

\* the orders in which a set can be iterated
Orderings(S) ==
    {s \in [1..Cardinality(S) -> S] : \A a, b \in 1..Cardinality(S) : a # b => s[a] # s[b]}

LinkEdge(implicit) ==
    NinjaBuild(<<PRE_ELF_PATH>>, "ld", <<LD_PATH>>, implicit,
               <<[key |-> "mapfile", value |-> MAP_PATH]>>, <<>>)

ElfEdge == NinjaBuild(<<ELF_PATH>>, "elf", <<PRE_ELF_PATH>>, <<>>, NoVariables, <<>>)

Sha1sumEdge ==
    NinjaBuild(<<OkPath>>, "sha1sum", <<ChecksumPath>>, <<ELF_PATH>>, NoVariables, <<>>)

Entry == linker_entries[idx]

InLoop == pc = "loop" /\ idx <= Len(linker_entries)

\* the marker check left out
StartsWithDot_Never(type) == FALSE

\* seg.type[0] == "."
StartsWithDot(type) == type[1] = "."

\* entry.object_path is None
NoObject(entry) == entry.object_path = None

\* the two continue statements
Skipped(entry) == StartsWithDot(entry.segment.type) \/ NoObject(entry)

IsAsSegment(seg) == isinstance(seg, CommonSegAsm) \/ isinstance(seg, CommonSegData)

IsBinSegment(seg) == isinstance(seg, CommonSegDatabin) \/ isinstance(seg, CommonSegRodatabin)

\* the compile branch as a plain else
IsCSegment_Else(seg) == TRUE

\* the compile branch also taken by library segments
IsCSegment_OrLib(seg) == isinstance(seg, CommonSegC) \/ isinstance(seg, "CommonSegLib")

IsCSegment(seg) == isinstance(seg, CommonSegC)

Supported(seg) == IsAsSegment(seg) \/ IsBinSegment(seg) \/ IsCSegment(seg)

\* build.ninja opened for appending
BuildStuffOpen_Append ==
    /\ pc = "build_stuff"
    /\ built_objects' = {}
    /\ fs' = fs \cup {BuildNinja}
    /\ build_ninja' = build_ninja \o Rules
    /\ idx' = 1
    /\ pc' = "loop"
    /\ UNCHANGED <<args, linker_entries, stdout, exit_code>>

\* open(ROOT / "build.ninja", "w") and the five rules
BuildStuffOpen ==
    /\ pc = "build_stuff"
    /\ built_objects' = {}
    /\ fs' = fs \cup {BuildNinja}
    /\ build_ninja' = Rules
    /\ idx' = 1
    /\ pc' = "loop"
    /\ UNCHANGED <<args, linker_entries, stdout, exit_code>>

SkipDot ==
    /\ InLoop
    /\ StartsWithDot(Entry.segment.type)
    /\ idx' = idx + 1
    /\ UNCHANGED <<args, fs, build_ninja, linker_entries, built_objects, stdout, pc, exit_code>>

SkipNoObject ==
    /\ InLoop
    /\ ~StartsWithDot(Entry.segment.type)
    /\ NoObject(Entry)
    /\ idx' = idx + 1
    /\ UNCHANGED <<args, fs, build_ninja, linker_entries, built_objects, stdout, pc, exit_code>>

\* every entry built with the compile rule
Emit_AlwaysCc(task, variables) ==
    LET r == build(Entry.object_path[1], Entry.src_paths, "cc", variables,
                   built_objects, build_ninja)
    IN  /\ built_objects' = r.objs
        /\ build_ninja' = r.out
        /\ idx' = idx + 1
        /\ UNCHANGED <<args, fs, linker_entries, stdout, pc, exit_code>>

\* every entry built with the assemble rule
Emit_AlwaysAs(task, variables) ==
    LET r == build(Entry.object_path[1], Entry.src_paths, "as", variables,
                   built_objects, build_ninja)
    IN  /\ built_objects' = r.objs
        /\ build_ninja' = r.out
        /\ idx' = idx + 1
        /\ UNCHANGED <<args, fs, linker_entries, stdout, pc, exit_code>>

Emit(task, variables) ==
    LET r == build(Entry.object_path[1], Entry.src_paths, task, variables,
                   built_objects, build_ninja)
    IN  /\ built_objects' = r.objs
        /\ build_ninja' = r.out
        /\ idx' = idx + 1
        /\ UNCHANGED <<args, fs, linker_entries, stdout, pc, exit_code>>

EmitAs ==
    /\ InLoop
    /\ ~Skipped(Entry)
    /\ IsAsSegment(Entry.segment)
    /\ Emit("as", Override)

EmitBin ==
    /\ InLoop
    /\ ~Skipped(Entry)
    /\ ~IsAsSegment(Entry.segment)
    /\ IsBinSegment(Entry.segment)
    /\ Emit("as", Override)

EmitC ==
    /\ InLoop
    /\ ~Skipped(Entry)
    /\ ~IsAsSegment(Entry.segment)
    /\ ~IsBinSegment(Entry.segment)
    /\ IsCSegment(Entry.segment)
    /\ Emit("cc", NoVariables)

ErrorLine(type) == [text |-> "ERROR: Unsupported build segment type ", type |-> type]

\* the error reported with exit status 0
Unsupported_ExitZero ==
    /\ InLoop
    /\ ~Skipped(Entry)
    /\ ~Supported(Entry.segment)
    /\ stdout' = Append(stdout, ErrorLine(Entry.segment.type))
    /\ exit_code' = 0
    /\ pc' = "exit"
    /\ UNCHANGED <<args, fs, build_ninja, linker_entries, idx, built_objects>>

Unsupported ==
    /\ InLoop
    /\ ~Skipped(Entry)
    /\ ~Supported(Entry.segment)
    /\ stdout' = Append(stdout, ErrorLine(Entry.segment.type))
    /\ exit_code' = 1
    /\ pc' = "exit"
    /\ UNCHANGED <<args, fs, build_ninja, linker_entries, idx, built_objects>>

\* the checksum edge written before the edge of the raw binary
TrailingEdges_Swapped ==
    /\ pc = "loop"
    /\ idx > Len(linker_entries)
    /\ \E order \in Orderings(built_objects) :
          build_ninja' = build_ninja \o
              <<LinkEdge(StrList(order)), Sha1sumEdge, ElfEdge>>
    /\ pc' = "returned"
    /\ UNCHANGED <<args, fs, linker_entries, idx, built_objects, stdout, exit_code>>

\* the three ninja.build calls after the loop
TrailingEdges ==
    /\ pc = "loop"
    /\ idx > Len(linker_entries)
    /\ \E order \in Orderings(built_objects) :
          build_ninja' = build_ninja \o
              <<LinkEdge(StrList(order)), ElfEdge, Sha1sumEdge>>
    /\ pc' = "returned"
    /\ UNCHANGED <<args, fs, linker_entries, idx, built_objects, stdout, exit_code>>

\* build_stuff returns and the script ends
ScriptEnd ==
    /\ pc = "returned"
    /\ pc' = "exit"
    /\ exit_code' = 0
    /\ UNCHANGED <<args, fs, build_ninja, linker_entries, idx, built_objects, stdout>>

\* ---------------------------------------------------------------- __main__

\* clean() removing the source directory too
clean_WithSrc(files) == files \ (CleanTargets \cup {SrcDir})

clean(files) == files \ CleanTargets

MainClean ==
    /\ pc = "main"
    /\ args.clean
    /\ fs' = clean(fs)
    /\ pc' = "exit"
    /\ exit_code' = 0
    /\ UNCHANGED <<args, build_ninja, linker_entries, idx, built_objects, stdout>>

MainCleanSrc ==
    /\ pc = "main"
    /\ ~args.clean
    /\ args.cleansrc
    /\ fs' = fs \ {SrcDir}
    /\ pc' = "exit"
    /\ exit_code' = 0
    /\ UNCHANGED <<args, build_ninja, linker_entries, idx, built_objects, stdout>>

\* split.main(...) and linker_entries = split.linker_writer.entries; the
\* splitter is external: it may generate any of its outputs and hands over
\* some list of entries
MainSplit ==
    /\ pc = "main"
    /\ ~args.clean
    /\ ~args.cleansrc
    /\ \E made \in SUBSET SplitterOutputs : fs' = fs \cup made
    /\ linker_entries' \in SeqsUpTo(MainEntries, MainMaxEntries)
    /\ pc' = "build_stuff"
    /\ UNCHANGED <<args, build_ninja, idx, built_objects, stdout, exit_code>>

\* ----------------------------------------------------------- specifications

InitCommon ==
    /\ fs \in SUBSET AllNames
    /\ build_ninja = IF BuildNinja \in fs THEN Stale ELSE <<>>
    /\ idx = 0
    /\ built_objects = {}
    /\ stdout = <<>>
    /\ exit_code = NoExit

\* build_stuff called on any list of entries
Init ==
    /\ InitCommon
    /\ args = [clean |-> FALSE, cleansrc |-> FALSE]
    /\ fs \subseteq {BuildNinja}
    /\ linker_entries \in SeqsUpTo(LinkerEntries, MaxEntries)
    /\ pc = "build_stuff"

BuildStuff ==
    \/ BuildStuffOpen
    \/ SkipDot
    \/ SkipNoObject
    \/ EmitAs
    \/ EmitBin
    \/ EmitC
    \/ Unsupported
    \/ TrailingEdges
    \/ ScriptEnd

Next == BuildStuff

Spec == Init /\ [][Next]_vars

\* the script started with any flags in any working directory
InitMain ==
    /\ InitCommon
    /\ args \in [clean : BOOLEAN, cleansrc : BOOLEAN]
    /\ linker_entries = <<>>
    /\ pc = "main"

NextMain ==
    \/ MainClean
    \/ MainCleanSrc
    \/ MainSplit
    \/ BuildStuffOpen
    \/ SkipDot
    \/ SkipNoObject
    \/ EmitAs
    \/ EmitBin
    \/ EmitC
    \/ Unsupported
    \/ TrailingEdges
    \/ ScriptEnd

SpecMain == InitMain /\ [][NextMain]_vars

TypeOK ==
    /\ pc \in {"main", "build_stuff", "loop", "returned", "exit"}
    /\ exit_code \in {NoExit, 0, 1}
    /\ fs \subseteq AllNames

\* ------------------------------------------------------- vocabulary of the claims

\* the build edges written so far, in order
Edges == SelectSeq(build_ninja, LAMBDA st : st.kind = "build")

\* build_stuff ran to its end
Completed == pc = "returned" \/ (pc = "exit" /\ exit_code = 0 /\ idx > 0)

\* the process exited with the error status
Failed == pc = "exit" /\ exit_code # 0

AsTags ==
    { <<"a", "s", "m">>, <<"d", "a", "t", "a">>,
      <<"d", "a", "t", "a", "b", "i", "n">>,
      <<"r", "o", "d", "a", "t", "a", "b", "i", "n">> }

CTag == <<"c">>

MarkerTag(type) == type[1] = "."

RecognizedTag(type) == MarkerTag(type) \/ type \in AsTags \/ type = CTag

SkippedEntry(e) == MarkerTag(e.segment.type) \/ e.object_path = None

\* positions of the entries that are not skipped
KeptIdx == {k \in 1..Len(linker_entries) : ~SkippedEntry(linker_entries[k])}

\* positions of the non-skipped entries with an unrecognized tag
FatalIdx == {k \in KeptIdx : ~RecognizedTag(linker_entries[k].segment.type)}

FirstFatal == CHOOSE k \in FatalIdx : \A m \in FatalIdx : k <= m

\* the position, among the edges, of the edge of the non-skipped entry k
Rank(k) == Cardinality({m \in KeptIdx : m <= k})

SrcStrs(e) == [m \in 1..Len(e.src_paths) |-> PathStr(e.src_paths[m])]

ObjStr(e) == PathStr(e.object_path[1])

RuleCount(rule) == Cardinality({j \in 1..Len(Edges) : Edges[j].rule = rule})

TagCount(tags) ==
    Cardinality({k \in 1..Len(linker_entries) : linker_entries[k].segment.type \in tags})

Range(s) == {s[k] : k \in 1..Len(s)}

TrailingRules == {"ld", "elf", "sha1sum"}

\* ----------------------------------------------------------------- claims

\* C1 as stated: whenever some entry of the list, wherever it sits and with
\* or without an object path, has an unrecognized tag, the run ends with a
\* non-zero status and a diagnostic naming that tag.
C1_AnyUnrecognizedTagIsFatal ==
    pc = "exit" =>
        \A k \in 1..Len(linker_entries) :
            ~RecognizedTag(linker_entries[k].segment.type) =>
                /\ exit_code # 0
                /\ \E line \in Range(stdout) : line.type = linker_entries[k].segment.type

\* C1 amended: if some entry with an object path has an unrecognized tag, the
\* run never completes: the loop stops at the first such entry, and the
\* process exits with status 1 after printing one diagnostic, which names
\* the tag of that entry.
C1_UnsupportedIsFatal ==
    FatalIdx # {} =>
        /\ pc # "returned"
        /\ idx <= FirstFatal
        /\ pc = "exit" =>
              /\ exit_code = 1
              /\ idx = FirstFatal
              /\ Len(stdout) = 1
              /\ stdout[1].text = "ERROR: Unsupported build segment type "
              /\ stdout[1].type = linker_entries[FirstFatal].segment.type

\* C1 witness: the run failed on the second entry, behind an entry that was built
C1_Witness ==
    /\ Failed
    /\ Len(linker_entries) = 2
    /\ KeptIdx = {1, 2}
    /\ FatalIdx = {2}
    /\ Len(stdout) = 1

\* C2 as stated: after the failure build.ninja was neither created nor
\* truncated nor given any text by the run.
C2_NoFileWritten ==
    Failed => (BuildNinja \notin fs \/ build_ninja = Stale)

\* C2 amended: when the emitter fails on an unsupported entry the process
\* exits with non-zero status, and build.ninja has been created or truncated
\* by the run and holds the five rule declarations followed only by edges of
\* the assemble and compile rules: it is no complete build graph.
C2_PartialFileWritten ==
    Failed =>
        /\ exit_code = 1
        /\ BuildNinja \in fs
        /\ Len(build_ninja) >= 5
        /\ [k \in 1..5 |-> build_ninja[k].kind] = [k \in 1..5 |-> "rule"]
        /\ [k \in 1..5 |-> build_ninja[k].name] = <<"as", "cc", "ld", "sha1sum", "elf">>
        /\ \A k \in 6..Len(build_ninja) :
              build_ninja[k].kind = "build" /\ build_ninja[k].rule \in {"as", "cc"}

\* C2 witness: the run failed after one edge was written
C2_Witness ==
    /\ Failed
    /\ Len(build_ninja) = 6
    /\ BuildNinja \in fs

\* C3: the step that handles an entry whose tag begins with "." or whose
\* object path is None writes nothing to the build graph and leaves the set
\* of tracked object paths as it is.
C3_SkippedEntryEmitsNothing ==
    [][(pc = "loop" /\ idx <= Len(linker_entries) /\ SkippedEntry(linker_entries[idx]))
          => (build_ninja' = build_ninja /\ built_objects' = built_objects /\ idx' = idx + 1)]_vars

\* C3 witness: a completed run over an unsupported tag without object path
\* and a marker tag with a tracked object path, with nothing but the
\* trailing edges emitted
C3_Witness ==
    /\ pc = "returned"
    /\ Len(linker_entries) = 2
    /\ linker_entries[1].object_path = None
    /\ ~RecognizedTag(linker_entries[1].segment.type)
    /\ MarkerTag(linker_entries[2].segment.type)
    /\ linker_entries[2].object_path # None
    /\ Len(Edges) = 3
    /\ built_objects = {}

\* C4 as stated: in a completed run every entry with an assemble-eligible
\* tag has exactly one edge of the rule "as".
C4_EveryAssembleTagHasEdge ==
    Completed => RuleCount("as") = TagCount(AsTags)

\* C4 amended: in a completed run every entry with an assemble-eligible tag
\* and an object path has exactly one edge: the edges are one per
\* non-skipped entry, and the edge of such an entry has the rule "as", the
\* entry's source paths in order as inputs and the entry's object path as
\* its only output.
C4_AssembleEdge ==
    Completed =>
        /\ Len(Edges) = Cardinality(KeptIdx) + 3
        /\ \A k \in KeptIdx :
              linker_entries[k].segment.type \in AsTags =>
                  /\ Edges[Rank(k)].rule = "as"
                  /\ Edges[Rank(k)].inputs = SrcStrs(linker_entries[k])
                  /\ Edges[Rank(k)].outputs = <<ObjStr(linker_entries[k])>>

\* C4 witness: a completed run over a binary-blob entry with two sources
\* behind a raw-data entry
C4_Witness ==
    /\ Completed
    /\ Len(linker_entries) = 2
    /\ KeptIdx = {1, 2}
    /\ linker_entries[1].segment.type = <<"d", "a", "t", "a">>
    /\ linker_entries[2].segment.type = <<"r", "o", "d", "a", "t", "a", "b", "i", "n">>
    /\ Len(linker_entries[2].src_paths) = 2
    /\ RuleCount("as") = 2

\* C5 as stated: in a completed run every entry with the compiled-C tag has
\* exactly one edge of the rule "cc".
C5_EveryCTagHasEdge ==
    Completed => RuleCount("cc") = TagCount({CTag})

\* C5 amended: in a completed run every entry with the compiled-C tag and an
\* object path has exactly one edge, of the rule "cc" and not of the rule
\* "as", from the entry's sources to its object path; the edges of the rule
\* "cc" are as many as these entries.
C5_CompileEdge ==
    Completed =>
        /\ Len(Edges) = Cardinality(KeptIdx) + 3
        /\ RuleCount("cc") =
              Cardinality({k \in KeptIdx : linker_entries[k].segment.type = CTag})
        /\ \A k \in KeptIdx :
              linker_entries[k].segment.type = CTag =>
                  /\ Edges[Rank(k)].rule = "cc"
                  /\ Edges[Rank(k)].rule # "as"
                  /\ Edges[Rank(k)].inputs = SrcStrs(linker_entries[k])
                  /\ Edges[Rank(k)].outputs = <<ObjStr(linker_entries[k])>>

\* C5 witness: a completed run over a compiled-C entry and an assembly entry
C5_Witness ==
    /\ Completed
    /\ Len(linker_entries) = 2
    /\ KeptIdx = {1, 2}
    /\ linker_entries[1].segment.type = <<"a", "s", "m">>
    /\ linker_entries[2].segment.type = CTag
    /\ RuleCount("cc") = 1

\* the object paths of the non-skipped entries whose suffix is ".o", as text
DotOOutputs ==
    {ObjStr(linker_entries[k]) :
        k \in {m \in KeptIdx : Suffix(linker_entries[m].object_path[1]) = <<".", "o">>}}

\* C6: in a completed run the edge of the rule "ld" lists as implicit inputs
\* exactly the object paths with suffix ".o" among the outputs of the
\* per-entry edges, each once.
C6_LinkImplicitInputs ==
    Completed =>
        LET link == Edges[Cardinality(KeptIdx) + 1]
            outs == UNION {Range(Edges[j].outputs) : j \in 1..Cardinality(KeptIdx)}
        IN  /\ link.rule = "ld"
            /\ outs = {ObjStr(linker_entries[k]) : k \in KeptIdx}
            /\ Range(link.implicit) = DotOOutputs
            /\ Range(link.implicit) =
                  {o \in outs : Len(o) >= 2 /\ SubSeq(o, Len(o) - 1, Len(o)) = <<".", "o">>}
            /\ Len(link.implicit) = Cardinality(DotOOutputs)

\* C6 witness: a completed run over two entries that share a ".o" object path
C6_Witness ==
    /\ Completed
    /\ Len(linker_entries) = 2
    /\ KeptIdx = {1, 2}
    /\ linker_entries[1].object_path = linker_entries[2].object_path
    /\ Len(Edges[3].implicit) = 1

\* C9: in a completed run the edges are those of the non-skipped entries in
\* the order of the entries, followed by the link edge, the edge of the raw
\* binary and the checksum edge, with their fixed paths.
C9_EdgeSequence ==
    Completed =>
        LET n == Cardinality(KeptIdx)
        IN  /\ Len(Edges) = n + 3
            /\ \A k \in KeptIdx :
                  /\ Edges[Rank(k)].outputs = <<ObjStr(linker_entries[k])>>
                  /\ Edges[Rank(k)].inputs = SrcStrs(linker_entries[k])
                  /\ Edges[Rank(k)].rule \in {"as", "cc"}
            /\ Edges[n + 1].rule = "ld"
            /\ Edges[n + 1].inputs = <<LD_PATH>>
            /\ Range(Edges[n + 1].implicit) = {PathStr(p) : p \in built_objects}
            /\ Edges[n + 1].outputs = <<PRE_ELF_PATH>>
            /\ Edges[n + 1].variables = <<[key |-> "mapfile", value |-> MAP_PATH]>>
            /\ Edges[n + 2].rule = "elf"
            /\ Edges[n + 2].inputs = <<PRE_ELF_PATH>>
            /\ Edges[n + 2].outputs = <<ELF_PATH>>
            /\ Edges[n + 3].rule = "sha1sum"
            /\ Edges[n + 3].inputs = <<ChecksumPath>>
            /\ Edges[n + 3].implicit = <<ELF_PATH>>
            /\ Edges[n + 3].outputs = <<ELF_PATH \o <<".", "o", "k">>>>

\* C9 witness: a completed run over a skipped entry and a built one
C9_Witness ==
    /\ Completed
    /\ Len(linker_entries) = 2
    /\ KeptIdx = {2}
    /\ Len(Edges) = 4
    /\ Edges[4].rule = "sha1sum"

\* C10: when the process has failed, the loop stands at the first non-skipped
\* entry with an unrecognized tag, the edges are exactly those of the
\* non-skipped entries before it, in order, and no link, raw-binary or
\* checksum edge has been written.
C10_FailsAtFirstUnsupported ==
    Failed =>
        /\ FatalIdx # {}
        /\ idx = FirstFatal
        /\ Len(Edges) = Cardinality({k \in KeptIdx : k < idx})
        /\ \A k \in KeptIdx :
              k < idx => /\ RecognizedTag(linker_entries[k].segment.type)
                         /\ Edges[Rank(k)].outputs = <<ObjStr(linker_entries[k])>>
        /\ \A j \in 1..Len(Edges) : Edges[j].rule \notin TrailingRules

\* C10 witness: the run failed on the first of two entries, the second of
\* which would have been built, with no edge written
C10_Witness ==
    /\ Failed
    /\ Len(linker_entries) = 2
    /\ idx = 1
    /\ KeptIdx = {1, 2}
    /\ RecognizedTag(linker_entries[2].segment.type)
    /\ Len(Edges) = 0

\* C7: the clean flag, with or without the cleansrc flag, removes .splache,
\* the linker script, asm, assets and build and nothing else; the cleansrc
\* flag alone removes src and nothing else, and leaves the content of
\* build.ninja alone.
C7_CleanEffects ==
    [][/\ (pc = "main" /\ args.clean) =>
            /\ fs' = fs \ {Splache, LD_PATH, AsmDir, AssetsDir, BuildDir}
            /\ build_ninja' = build_ninja
       /\ (pc = "main" /\ ~args.clean /\ args.cleansrc) =>
            /\ fs' = fs \ {SrcDir}
            /\ build_ninja' = build_ninja]_vars

\* C7 witness: both flags given, the process has exited and the source
\* directory and build.ninja are all that is left
C7_Witness ==
    /\ pc = "exit"
    /\ args.clean
    /\ args.cleansrc
    /\ fs = {SrcDir, BuildNinja}
    /\ build_ninja = Stale

\* C8: with a flag given the process exits with status 0 and neither the
\* splitter nor the emitter runs; without flags the exit status is 0 when no
\* non-skipped entry has an unrecognized tag and non-zero when one has.
C8_ExitCodes ==
    /\ (args.clean \/ args.cleansrc) =>
          /\ pc \in {"main", "exit"}
          /\ linker_entries = <<>>
          /\ idx = 0
          /\ stdout = <<>>
          /\ build_ninja \in {<<>>, Stale}
          /\ pc = "exit" => exit_code = 0
    /\ (~args.clean /\ ~args.cleansrc /\ pc = "exit") =>
          /\ exit_code \in {0, 1}
          /\ exit_code # 0 <=> FatalIdx # {}

\* C8 witness: a default run that failed on its second entry
C8_Witness ==
    /\ ~args.clean
    /\ ~args.cleansrc
    /\ pc = "exit"
    /\ exit_code = 1
    /\ FatalIdx = {2}
    /\ SrcDir \in fs

====
